---- MODULE Spec2Model ----
(***************************************************************************)
(* State-machine model of the test-case generation client.                 *)
(*                                                                         *)
(* Two versions of GeneratePage exist in the repository:                   *)
(*   - the session-reference version (src/src/pages/GeneratePage.tsx),     *)
(*     hosting UnifiedInputBox, which hosts ImageUploader (compact mode)   *)
(*     and ImagePreviewGrid;                                               *)
(*   - the direct-upload version (src/unnamed/part_001), hosting           *)
(*     CombinedInput.                                                      *)
(* ImageUpload (src/unnamed/part_003) is the file intake of CombinedInput  *)
(* as a component of its own, with no page around it in the repository.    *)
(* The variable `variant` records which of the three was constructed; the  *)
(* page state (issueKey, prelight, genResult, analyzing, generating) is    *)
(* the same five useState cells in both pages.                             *)
(*                                                                         *)
(* The specifications run the same actions over different input sets:      *)
(*   Spec         the pages: every text, a few batches, one upload;        *)
(*   SpecIntake   the file intakes: every batch up to MaxBatch, no         *)
(*                analysis or generation;                                  *)
(*   SpecSession  the upload session of UnifiedInputBox: several uploads,  *)
(*                a few batches, no analysis or generation.                *)
(*   SpecAuth     the session-reference page and the api client: calls     *)
(*                answered with status 401, the logout and the redirect.   *)
(*   SpecRoutes   the routes of App: login, logout, the links of the       *)
(*                layout and the redirect of PrivateRoute.                 *)
(* FairSpec is the pages with one image to upload, the detected keys to    *)
(* pick and the fairness of the HTTP responses.                            *)
(*                                                                         *)
(* Conventions.  A nullable value (T | null) is a sequence of length <= 1: *)
(* <<>> is null/undefined, <<v>> is the value v.  A text is a sequence of  *)
(* one-character strings.  One action is one event-loop task: a DOM event  *)
(* handler or a promise continuation, together with the React effects     *)
(* that the state change it makes re-runs.  A component that has been      *)
(* unmounted ignores setState, so its state cells keep their last values.  *)
(***************************************************************************)
EXTENDS Integers, Sequences, FiniteSets, TLC

----
(* Bounds of the model *)

\* longest batch of files one selection / drop / paste delivers in SpecIntake
\* (besides the two bulk batches of BulkBatches)
MaxBatch == 2

\* number of batches ImageUploader accepts (each becomes one upload call) in
\* Spec, FairSpec and SpecIntake
MaxUploads == 1

\* number of batches ImageUploader accepts in SpecSession
MaxSessions == 2

\* most responses with status 401 the api client receives in SpecAuth
MaxUnauthorized == 2

\* the most history entries a behaviour of the routes pushes
MaxEntries == 3

----
(* Program constants *)

\* ImageUploader maxFiles, CombinedInput / ImageUpload maxImages (default props)
maxFiles == 5

maxImages == 5

\* maxSizeMB / maxSizePerImage (default props), in MB
maxSizeMB == 10

maxSizeBytes == maxSizeMB * 1024 * 1024

----
(* Nullable values *)

Null == <<>>

Some(v) == <<v>>

IsNull(o) == o = <<>>

\* JavaScript truthiness of a nullable string: null, undefined and '' are falsy
Truthy(o) == o # <<>> /\ o[1] # ""

\* JavaScript (a || b) on a nullable string a and a string b
OrElse(o, fallback) == IF Truthy(o) THEN o[1] ELSE fallback

----
(* Texts: the issue-key input *)

Space == " "

\* String.prototype.trim on a text: strips leading and trailing white space
RECURSIVE TrimLeft(_)
TrimLeft(t) == IF t # <<>> /\ Head(t) = Space THEN TrimLeft(Tail(t)) ELSE t

RECURSIVE TrimRight(_)
TrimRight(t) ==
    IF t # <<>> /\ t[Len(t)] = Space THEN TrimRight(SubSeq(t, 1, Len(t) - 1)) ELSE t

Trim(t) == TrimRight(TrimLeft(t))

KeyA == <<"A">>

KeyB == <<"B">>

\* what the user can type into the issue-key input
Texts == { <<>>, <<Space>>, KeyA, <<Space, "A">>, KeyB }

----
(* Files *)

\* a.png: a small PNG
FileA == [name |-> "a.png", size |-> 1024, type |-> "image/png"]

\* b.jpg: a JPEG of exactly the maximum size
FileB == [name |-> "b.jpg", size |-> maxSizeBytes, type |-> "image/jpeg"]

\* big.png: a PNG one byte over the maximum size
FileBig == [name |-> "big.png", size |-> maxSizeBytes + 1, type |-> "image/png"]

\* notes.txt: a small file that is no image
FileTxt == [name |-> "notes.txt", size |-> 1024, type |-> "text/plain"]

\* video.mp4: a file that is no image and is over the maximum size
FileVid == [name |-> "video.mp4", size |-> maxSizeBytes + 1, type |-> "video/mp4"]

Files == { FileA, FileB, FileBig, FileTxt, FileVid }

RECURSIVE SeqsUpTo(_, _)
SeqsUpTo(S, n) ==
    IF n = 0 THEN { <<>> }
    ELSE LET shorter == SeqsUpTo(S, n - 1)
         IN  shorter \cup { Append(s, x) : s \in { t \in shorter : Len(t) = n - 1 }, x \in S }

Repeat(x, n) == [i \in 1..n |-> x]

\* bulk selections: exactly the maximum count, and one more
BulkBatches == { Repeat(FileA, maxFiles), Repeat(FileA, maxFiles + 1) }

\* the file lists a selection, a drop or a paste can deliver (never empty)
Batches == (SeqsUpTo(Files, MaxBatch) \ { <<>> }) \cup BulkBatches

\* the batches of Spec and SpecSession: one image, two images, no image
FewBatches == { <<FileA>>, <<FileB, FileA>>, <<FileTxt>> }

\* file.type.startsWith('image/')
IsImageType(type) == type \in { "image/png", "image/jpeg", "image/bmp" }

\* array.filter((_, i) => i !== index)
RemoveAt(s, index) == [i \in 1..(Len(s) - 1) |-> IF i < index THEN s[i] ELSE s[i + 1]]

----
(* State *)

VARIABLES
    accessToken,        \* useAuthStore: the bearer credential, Null when logged out
    pathname,           \* window.location.pathname
    unauthorized,       \* number of 401 responses the api client has handled
    replaced,           \* number of calls of window.location.replace('/login')
    dashboard,          \* DashboardPage is mounted
    entries,            \* number of entries pushed on the history stack
    variant,            \* "session", "direct" or "imageUpload": what was built
    mounted,            \* the page (and the input component in it) is mounted
    issueKey,           \* GeneratePage: useState('')
    prelight,           \* GeneratePage: useState(null), the analysis result slot
    genResult,          \* GeneratePage: useState(null), the generation result slot
    analyzing,          \* GeneratePage: useState(false)
    generating,         \* GeneratePage: useState(false)
    uploadedImages,     \* GeneratePage (direct): useState([]), the files to send
    images,             \* UnifiedInputBox: useState([])
    imageSessionId,     \* UnifiedInputBox: useState(null)
    uploading,          \* UnifiedInputBox: useState(false)
    detectedJiraKeys,   \* UnifiedInputBox: useState([])
    showDetectedKeys,   \* UnifiedInputBox: useState(false)
    uploadError,        \* UnifiedInputBox: useState(null)
    iuError,            \* ImageUploader: useState(null)
    readers,            \* ImageUploader: the FileReader jobs of accepted batches
    nBatches,           \* number of batches ImageUploader has accepted so far
    ciImages,           \* CombinedInput / ImageUpload: useState([]), the files
    ciError,            \* CombinedInput / ImageUpload: useState('')
    calls,              \* HTTP calls awaiting their response
    op,                 \* the handler or continuation that ran last
    batch,              \* the files it handed to processFiles (<<>>: none)
    notified,           \* it called onImagesChange / started FileReader jobs
    issued,             \* the HTTP requests it issued, in order
    created,            \* the number of object URLs it created
    revoked             \* the number of object URLs it revoked

authVars == <<accessToken, pathname, unauthorized, replaced, dashboard, entries>>

envVars == <<variant, mounted, authVars>>

pageVars == <<issueKey, prelight, genResult, analyzing, generating, uploadedImages>>

boxVars ==
    <<images, imageSessionId, uploading, detectedJiraKeys, showDetectedKeys, uploadError>>

uploaderVars == <<iuError, readers, nBatches>>

ciVars == <<ciImages, ciError>>

vars ==
    <<envVars, pageVars, boxVars, uploaderVars, ciVars, calls, op, batch, notified, issued,
      created, revoked>>

\* an HTTP request: the endpoint and what the payload (or the URL) carries;
\* a field the payload does not have is Null (imageSessionId) or <<>> (images)
Request(api, key, sid, files) ==
    [api |-> api, issueKey |-> key, imageSessionId |-> sid, images |-> files]

\* api.delete(`/generations/image-sessions/${imageSessionId}`)
DeleteRequest(sid) == Request("delete", <<>>, Some(sid), <<>>)

\* a call in flight: its request and what the awaiting closure captured
\* (job: the ImageUploader batch of an upload; nImages: uploadedImages.length)
Call(req, job, nImages) == [req |-> req, job |-> job, nImages |-> nImages]

\* the release calls in flight after a handler issued the DELETE requests
\* reqs, none of them awaited (job: the position among them)
ReleaseCalls(reqs) == { Call(reqs[k], k, 0) : k \in 1..Len(reqs) }

\* a value of a result slot: {error} on failure, the response data on success
ErrorResult(msg) == [error |-> Some(msg), issueKey |-> <<>>, imagesCount |-> 0]

DataResult(key, n) == [error |-> Null, issueKey |-> key, imagesCount |-> n]

\* err?.response?.data?.error as the server may report it: no response or no
\* error field, an empty text, a message
ServerErrors == { Null, Some(""), Some("Issue not found") }

InitOf(variants) ==
    /\ variant \in variants
    /\ mounted = TRUE
    /\ accessToken = Some("token")
    /\ pathname = "/"
    /\ unauthorized = 0
    /\ replaced = 0
    /\ dashboard = FALSE
    /\ entries = 0
    /\ issueKey = <<>>
    /\ prelight = Null
    /\ genResult = Null
    /\ analyzing = FALSE
    /\ generating = FALSE
    /\ uploadedImages = <<>>
    /\ images = <<>>
    /\ imageSessionId = Null
    /\ uploading = FALSE
    /\ detectedJiraKeys = <<>>
    /\ showDetectedKeys = FALSE
    /\ uploadError = Null
    /\ iuError = Null
    /\ readers = {}
    /\ nBatches = 0
    /\ ciImages = <<>>
    /\ ciError = ""
    /\ calls = {}
    /\ op = "init"
    /\ batch = <<>>
    /\ notified = FALSE
    /\ issued = <<>>
    /\ created = 0
    /\ revoked = 0

\* no URL.createObjectURL and no URL.revokeObjectURL in the handler
NoUrls == created' = 0 /\ revoked' = 0

\* what a handler that hands no files to processFiles leaves in the history
NoIntake == batch' = <<>> /\ notified' = FALSE /\ NoUrls

----
(* App *)

\* PrivateRoute renders its children whatever the token
PrivateRouteOpen(token) == TRUE

\* PrivateRoute({ children }): TRUE when it returns the children, FALSE when
\* it returns <Navigate to="/login" replace />
PrivateRoute(token) == Truthy(token)

----
(* GeneratePage: both versions *)

\* no effect on [issueKey]: the slot stays
PrelightKeptOnKeyChange(newKey, p) == p

\* useEffect(() => { setPrelight(null) }, [issueKey]): runs when a render sees
\* another issueKey than the render before; p is the slot if it does not run
PrelightAfterKeyEffect(newKey, p) == IF newKey # issueKey THEN Null ELSE p

\* onChange={setIssueKey}, then the effect on [issueKey]
SetIssueKey(t) ==
    /\ issueKey' = t
    /\ prelight' = PrelightAfterKeyEffect(t, prelight)
    /\ UNCHANGED <<genResult, analyzing, generating, uploadedImages>>

\* the fallback alone, whatever the server said
AnalysisErrorIgnoresServer(err) == "Analysis failed"

\* err?.response?.data?.error || 'Analysis failed'
AnalysisError(err) == OrElse(err, "Analysis failed")

\* err?.response?.data?.error || 'Generation failed'
GenerationError(err) == OrElse(err, "Generation failed")

\* analyze sending the text as typed, without trim()
analyzeUntrimmed(sid) ==
    IF Trim(issueKey) = <<>>
    THEN /\ UNCHANGED <<pageVars, calls>>
         /\ issued' = <<>>
    ELSE LET req == Request("prelight", issueKey, sid, <<>>)
         IN  /\ analyzing' = TRUE
             /\ prelight' = Null
             /\ calls' = calls \cup { Call(req, 0, Len(uploadedImages)) }
             /\ issued' = <<req>>
             /\ UNCHANGED <<issueKey, genResult, generating, uploadedImages>>

\* analyze without setPrelight(null)
analyzeKeepsResult(sid) ==
    IF Trim(issueKey) = <<>>
    THEN /\ UNCHANGED <<pageVars, calls>>
         /\ issued' = <<>>
    ELSE LET req == Request("prelight", Trim(issueKey), sid, <<>>)
         IN  /\ analyzing' = TRUE
             /\ calls' = calls \cup { Call(req, 0, Len(uploadedImages)) }
             /\ issued' = <<req>>
             /\ UNCHANGED <<issueKey, prelight, genResult, generating,
                            uploadedImages>>

\* analyze up to its await: the session-reference version is called with
\* sid and sends it when it is truthy; the direct-upload version sends the
\* issue key alone and its closure holds uploadedImages
analyze(sid) ==
    IF Trim(issueKey) = <<>>
    THEN /\ UNCHANGED <<pageVars, calls>>
         /\ issued' = <<>>
    ELSE LET req == Request("prelight", Trim(issueKey), sid, <<>>)
         IN  /\ analyzing' = TRUE
             /\ prelight' = Null
             /\ calls' = calls \cup { Call(req, 0, Len(uploadedImages)) }
             /\ issued' = <<req>>
             /\ UNCHANGED <<issueKey, genResult, generating, uploadedImages>>

\* performGeneration without the return on an empty key
performGenerationUnguarded(sid, files) ==
    LET req == Request("testcases", Trim(issueKey), sid, files)
    IN  /\ generating' = TRUE
        /\ genResult' = Null
        /\ calls' = calls \cup { Call(req, 0, 0) }
        /\ issued' = <<req>>
        /\ UNCHANGED <<issueKey, prelight, analyzing, uploadedImages>>

\* performGeneration up to its await: the session-reference version sends
\* {issueKey, imageSessionId?}, the direct-upload version a multipart form of
\* the issue key and the files of uploadedImages
performGeneration(sid, files) ==
    IF Trim(issueKey) = <<>>
    THEN /\ UNCHANGED <<pageVars, calls>>
         /\ issued' = <<>>
    ELSE LET req == Request("testcases", Trim(issueKey), sid, files)
         IN  /\ generating' = TRUE
             /\ genResult' = Null
             /\ calls' = calls \cup { Call(req, 0, 0) }
             /\ issued' = <<req>>
             /\ UNCHANGED <<issueKey, prelight, analyzing, uploadedImages>>

\* analyze with a fence: a response for another key than the current one is
\* dropped
AnalyzeResolvedFenced(c) ==
    /\ prelight' = IF c.req.issueKey = Trim(issueKey)
                   THEN Some(DataResult(c.req.issueKey, c.nImages))
                   ELSE prelight
    /\ analyzing' = FALSE
    /\ UNCHANGED <<issueKey, genResult, generating, uploadedImages>>

\* analyze: the call resolved; setPrelight(res.data), finally
\* setAnalyzing(false).  The data are the server's for the key of the request;
\* the direct-upload version adds imagesCount when its closure holds images
AnalyzeResolved(c) ==
    /\ prelight' = Some(DataResult(c.req.issueKey, c.nImages))
    /\ analyzing' = FALSE
    /\ UNCHANGED <<issueKey, genResult, generating, uploadedImages>>

\* analyze: the call rejected; catch, and no finally
AnalyzeRejectedNoFinally(err) ==
    /\ prelight' = Some(ErrorResult(AnalysisError(err)))
    /\ UNCHANGED <<issueKey, genResult, analyzing, generating, uploadedImages>>

\* analyze: the call rejected; catch, finally
AnalyzeRejected(err) ==
    /\ prelight' = Some(ErrorResult(AnalysisError(err)))
    /\ analyzing' = FALSE
    /\ UNCHANGED <<issueKey, genResult, generating, uploadedImages>>

\* performGeneration: the call resolved; setGenResult(res.data.data), finally
GenerationResolved(c) ==
    /\ genResult' = Some(DataResult(c.req.issueKey, Len(c.req.images)))
    /\ generating' = FALSE
    /\ UNCHANGED <<issueKey, prelight, analyzing, uploadedImages>>

\* performGeneration: the call rejected; catch, finally
GenerationRejected(err) ==
    /\ genResult' = Some(ErrorResult(GenerationError(err)))
    /\ generating' = FALSE
    /\ UNCHANGED <<issueKey, prelight, analyzing, uploadedImages>>

----
(* ImageUploader (compact mode) *)

\* disabled={uploading || generating}
UploaderDisabled == uploading \/ generating

IsImageFile(file) == IsImageType(file.type)

IsOversized(file) == file.size > maxSizeBytes

\* the validation turning down every batch that holds a non-image file
UploaderVerdictAllImages(files) ==
    LET imageFiles == SelectSeq(files, IsImageFile)
    IN  IF Len(imageFiles) < Len(files) THEN Some("Please select image files only")
        ELSE IF Len(imageFiles) > maxFiles THEN Some("Maximum 5 images allowed")
        ELSE IF Len(SelectSeq(imageFiles, IsOversized)) > 0
             THEN Some("Some files exceed 10MB limit")
        ELSE Null

\* the validation with the size check on the first image file alone
UploaderVerdictFirstOnly(files) ==
    LET imageFiles == SelectSeq(files, IsImageFile)
    IN  IF Len(imageFiles) = 0 THEN Some("Please select image files only")
        ELSE IF Len(imageFiles) > maxFiles THEN Some("Maximum 5 images allowed")
        ELSE IF IsOversized(imageFiles[1])
             THEN Some("Some files exceed 10MB limit")
        ELSE Null

\* processFiles: the validation; the error it sets, Null when the batch passes
UploaderVerdict(files) ==
    LET imageFiles == SelectSeq(files, IsImageFile)
    IN  IF Len(imageFiles) = 0 THEN Some("Please select image files only")
        ELSE IF Len(imageFiles) > maxFiles THEN Some("Maximum 5 images allowed")
        ELSE IF Len(SelectSeq(imageFiles, IsOversized)) > 0
             THEN Some("Some files exceed 10MB limit")
        ELSE Null

\* processFiles with the returns after setError missing: readers start for
\* the image files of a rejected batch as well
processFilesNoReturn(files) ==
    LET imageFiles == SelectSeq(files, IsImageFile)
        verdict == UploaderVerdict(files)
    IN  /\ iuError' = verdict
        /\ batch' = files
        /\ notified' = (verdict = Null)
        /\ NoUrls
        /\ IF Len(imageFiles) > 0
           THEN /\ nBatches' = nBatches + 1
                /\ readers' = readers \cup
                       { [job |-> nBatches + 1, files |-> imageFiles, pending |-> imageFiles,
                          loaded |-> <<>>] }
           ELSE UNCHANGED <<readers, nBatches>>

\* processFiles: setError(null), filter, validate, then one FileReader per
\* image file; the job keeps imageFiles, the files still being read and those
\* read (uploadedImages), in the order their onload ran
processFiles(files) ==
    LET imageFiles == SelectSeq(files, IsImageFile)
        verdict == UploaderVerdict(files)
    IN  /\ iuError' = verdict
        /\ batch' = files
        /\ notified' = (verdict = Null)
        /\ NoUrls
        /\ IF verdict = Null
           THEN /\ nBatches' = nBatches + 1
                /\ readers' = readers \cup
                       { [job |-> nBatches + 1, files |-> imageFiles, pending |-> imageFiles,
                          loaded |-> <<>>] }
           ELSE UNCHANGED <<readers, nBatches>>

\* handleFileChange: the hidden file input (disabled with the component);
\* cap bounds the number of accepted batches
HandleFileChange(files, cap) ==
    /\ mounted /\ variant = "session"
    /\ ~UploaderDisabled
    /\ nBatches < cap
    /\ processFiles(files)
    /\ op' = "processFiles"
    /\ issued' = <<>>
    /\ UNCHANGED <<envVars, pageVars, boxVars, ciVars, calls>>

\* handlePaste: the document's paste listener; image items only
HandlePaste(items, cap) ==
    /\ mounted /\ variant = "session"
    /\ ~UploaderDisabled
    /\ nBatches < cap
    /\ LET files == SelectSeq(items, IsImageFile)
       IN  IF Len(files) > 0
           THEN processFiles(files) /\ op' = "processFiles"
           ELSE UNCHANGED uploaderVars /\ NoIntake /\ op' = "handlePaste"
    /\ issued' = <<>>
    /\ UNCHANGED <<envVars, pageVars, boxVars, ciVars, calls>>

----
(* UnifiedInputBox *)

\* handleImagesSelected up to its await: the FormData holds the files in the
\* order of uploadedImages
handleImagesSelected(uploadedFiles, job) ==
    LET req == Request("upload", <<>>, Null, uploadedFiles)
    IN  /\ IF mounted
           THEN /\ uploading' = TRUE
                /\ uploadError' = Null
           ELSE UNCHANGED <<uploading, uploadError>>
        /\ calls' = calls \cup { Call(req, job, 0) }
        /\ issued' = <<req>>
        /\ UNCHANGED <<images, imageSessionId, detectedJiraKeys, showDetectedKeys>>

\* reader.onload of one file of a job, calling onImagesSelected after every
\* push
ReaderLoadedEager(r, i) ==
    LET loaded == Append(r.loaded, r.pending[i])
        pending == RemoveAt(r.pending, i)
    IN  /\ readers' = readers \ { r }
        /\ handleImagesSelected(loaded, r.job)
        /\ op' = "readerLoaded"
        /\ NoIntake
        /\ UNCHANGED <<envVars, pageVars, iuError, nBatches, ciVars>>

\* reader.onload of one file of a job; the one that makes processed equal to
\* imageFiles.length calls onImagesSelected
ReaderLoaded(r, i) ==
    LET loaded == Append(r.loaded, r.pending[i])
        pending == RemoveAt(r.pending, i)
    IN  /\ IF Len(loaded) = Len(r.files)
           THEN /\ readers' = readers \ { r }
                /\ handleImagesSelected(loaded, r.job)
           ELSE /\ readers' = (readers \ { r }) \cup
                       { [job |-> r.job, files |-> r.files, pending |-> pending,
                          loaded |-> loaded] }
                /\ issued' = <<>>
                /\ UNCHANGED <<boxVars, calls>>
        /\ op' = "readerLoaded"
        /\ NoIntake
        /\ UNCHANGED <<envVars, pageVars, iuError, nBatches, ciVars>>

\* what the OCR service reports for one file
OcrOf(file) ==
    IF file = FileA
    THEN [filename |-> Some("upload-a.png"), detectedJiraKeys |-> Some(<<KeyA>>),
          ocrConfidence |-> Some(90)]
    ELSE [filename |-> Null, detectedJiraKeys |-> Null, ocrConfidence |-> Null]

\* the keys detected in a list of files, each once
RECURSIVE AggregateKeys(_)
AggregateKeys(files) ==
    IF files = <<>> THEN <<>>
    ELSE LET rest == AggregateKeys(SubSeq(files, 1, Len(files) - 1))
             last == OcrOf(files[Len(files)]).detectedJiraKeys
         IN  IF last = Null \/ \E k \in 1..Len(rest) : <<rest[k]>> = last[1]
             THEN rest
             ELSE rest \o last[1]

\* response.data.data of a successful upload of `files` as job `job`: a result
\* per file in the order sent, or one result short and no aggregate list
UploadResponses(files, job) ==
    { [sessionId |-> job,
       images |-> [i \in 1..Len(files) |-> OcrOf(files[i])],
       detectedJiraKeys |-> Some(AggregateKeys(files))],
      [sessionId |-> job,
       images |-> [i \in 1..(Len(files) - 1) |-> OcrOf(files[i])],
       detectedJiraKeys |-> Null] }

\* x || [] on a nullable array (an empty array is truthy)
OrEmpty(o) == IF o = Null THEN <<>> ELSE o[1]

\* the ImagePreview built from the first server result, whatever the index
ImagePreviewOfFirstResult(file, data, index) ==
    LET result == IF 1 <= Len(data.images) THEN Some(data.images[1]) ELSE Null
    IN  [preview |-> file,
         filename |-> IF result = Null THEN file.name
                      ELSE OrElse(result[1].filename, file.name),
         size |-> file.size,
         detectedJiraKeys |-> IF result = Null THEN <<>>
                              ELSE OrEmpty(result[1].detectedJiraKeys),
         ocrConfidence |-> IF result = Null \/ result[1].ocrConfidence = Null THEN 0
                           ELSE result[1].ocrConfidence[1]]

\* the ImagePreview built for the index-th uploaded file
ImagePreviewOf(file, data, index) ==
    LET result == IF index <= Len(data.images) THEN Some(data.images[index]) ELSE Null
    IN  [preview |-> file,
         filename |-> IF result = Null THEN file.name
                      ELSE OrElse(result[1].filename, file.name),
         size |-> file.size,
         detectedJiraKeys |-> IF result = Null THEN <<>>
                              ELSE OrEmpty(result[1].detectedJiraKeys),
         ocrConfidence |-> IF result = Null \/ result[1].ocrConfidence = Null THEN 0
                           ELSE result[1].ocrConfidence[1]]

\* no cleanup of the session effect: nothing is released
NoSessionEffectCleanup(newSid) == <<>>

\* the cleanup of useEffect(..., [imageSessionId]) when a render sees another
\* session id (or the component unmounts): the release calls it issues
SessionEffectCleanup(newSid) ==
    IF imageSessionId # Null /\ newSid # imageSessionId
    THEN <<DeleteRequest(imageSessionId[1])>>
    ELSE <<>>

\* handleImagesSelected after its await, the upload resolved
UploadResolved(c, data) ==
    /\ c \in calls /\ c.req.api = "upload"
    /\ IF mounted
       THEN /\ images' = [i \in 1..Len(c.req.images) |->
                            ImagePreviewOf(c.req.images[i], data, i)]
            /\ imageSessionId' = Some(data.sessionId)
            /\ detectedJiraKeys' = OrEmpty(data.detectedJiraKeys)
            /\ showDetectedKeys' =
                   IF Len(OrEmpty(data.detectedJiraKeys)) > 0 THEN TRUE
                   ELSE showDetectedKeys
            /\ uploading' = FALSE
            /\ issued' = SessionEffectCleanup(Some(data.sessionId))
            /\ UNCHANGED uploadError
       ELSE /\ issued' = <<>>
            /\ UNCHANGED boxVars
    /\ calls' = (calls \ { c }) \cup ReleaseCalls(issued')
    /\ op' = "uploadResolved"
    /\ NoIntake
    /\ UNCHANGED <<envVars, pageVars, uploaderVars, ciVars>>

\* the fallback alone, whatever the server said
UploadErrorMessageGeneric(err) == "Failed to upload images"

\* error?.response?.data?.error || 'Failed to upload images'
UploadErrorMessage(err) == OrElse(err, "Failed to upload images")

\* handleImagesSelected after its await, the upload rejected
UploadRejected(c, err) ==
    /\ c \in calls /\ c.req.api = "upload"
    /\ calls' = calls \ { c }
    /\ IF mounted
       THEN /\ uploadError' = Some(UploadErrorMessage(err))
            /\ uploading' = FALSE
            /\ UNCHANGED <<images, imageSessionId, detectedJiraKeys, showDetectedKeys>>
       ELSE UNCHANGED boxVars
    /\ op' = "uploadRejected"
    /\ NoIntake
    /\ issued' = <<>>
    /\ UNCHANGED <<envVars, pageVars, uploaderVars, ciVars>>

\* handleRemoveImage without setImageSessionId(null)
handleRemoveImageKeepsSession(index) ==
    LET newImages == RemoveAt(images, index)
    IN  /\ mounted /\ variant = "session"
        /\ index \in 1..Len(images)
        /\ images' = newImages
        /\ IF Len(newImages) = 0
           THEN /\ issued' =
                    (IF imageSessionId # Null
                     THEN <<DeleteRequest(imageSessionId[1])>> ELSE <<>>)
                /\ detectedJiraKeys' = <<>>
                /\ showDetectedKeys' = FALSE
                /\ UNCHANGED imageSessionId
           ELSE /\ issued' = <<>>
                /\ UNCHANGED <<imageSessionId, detectedJiraKeys, showDetectedKeys>>
        /\ calls' = calls \cup ReleaseCalls(issued')
        /\ op' = "handleRemoveImage"
        /\ NoIntake
        /\ UNCHANGED <<envVars, pageVars, uploading, uploadError, uploaderVars,
                       ciVars>>

\* handleRemoveImage without setDetectedJiraKeys([]) and
\* setShowDetectedKeys(false)
handleRemoveImageKeepsKeys(index) ==
    LET newImages == RemoveAt(images, index)
    IN  /\ mounted /\ variant = "session"
        /\ index \in 1..Len(images)
        /\ images' = newImages
        /\ IF Len(newImages) = 0
           THEN /\ issued' =
                    (IF imageSessionId # Null
                     THEN <<DeleteRequest(imageSessionId[1])>> ELSE <<>>)
                    \o SessionEffectCleanup(Null)
                /\ imageSessionId' = Null
                /\ UNCHANGED <<detectedJiraKeys, showDetectedKeys>>
           ELSE /\ issued' = <<>>
                /\ UNCHANGED <<imageSessionId, detectedJiraKeys, showDetectedKeys>>
        /\ calls' = calls \cup ReleaseCalls(issued')
        /\ op' = "handleRemoveImage"
        /\ NoIntake
        /\ UNCHANGED <<envVars, pageVars, uploading, uploadError, uploaderVars,
                       ciVars>>

\* handleRemoveImage clearing the session on every removal
handleRemoveImageClearsAlways(index) ==
    LET newImages == RemoveAt(images, index)
    IN  /\ mounted /\ variant = "session"
        /\ index \in 1..Len(images)
        /\ images' = newImages
        /\ issued' =
               (IF imageSessionId # Null
                THEN <<DeleteRequest(imageSessionId[1])>> ELSE <<>>)
               \o SessionEffectCleanup(Null)
        /\ imageSessionId' = Null
        /\ detectedJiraKeys' = <<>>
        /\ showDetectedKeys' = FALSE
        /\ calls' = calls \cup ReleaseCalls(issued')
        /\ op' = "handleRemoveImage"
        /\ NoIntake
        /\ UNCHANGED <<envVars, pageVars, uploading, uploadError, uploaderVars,
                       ciVars>>

\* handleRemoveImage(index), from the remove button of an image card, and the
\* cleanup of the session effect that the state change re-runs
handleRemoveImage(index) ==
    LET newImages == RemoveAt(images, index)
    IN  /\ mounted /\ variant = "session"
        /\ index \in 1..Len(images)
        /\ images' = newImages
        /\ IF Len(newImages) = 0
           THEN /\ issued' =
                    (IF imageSessionId # Null
                     THEN <<DeleteRequest(imageSessionId[1])>> ELSE <<>>)
                    \o SessionEffectCleanup(Null)
                /\ imageSessionId' = Null
                /\ detectedJiraKeys' = <<>>
                /\ showDetectedKeys' = FALSE
           ELSE /\ issued' = <<>>
                /\ UNCHANGED <<imageSessionId, detectedJiraKeys, showDetectedKeys>>
        /\ calls' = calls \cup ReleaseCalls(issued')
        /\ op' = "handleRemoveImage"
        /\ NoIntake
        /\ UNCHANGED <<envVars, pageVars, uploading, uploadError, uploaderVars,
                       ciVars>>

\* the keys a click can pick: the suggestion panel's and the image cards'
ClickableKeys ==
    (IF showDetectedKeys
     THEN { detectedJiraKeys[k] : k \in 1..Len(detectedJiraKeys) } ELSE {})
    \cup UNION { { images[i].detectedJiraKeys[k] :
                     k \in 1..Len(images[i].detectedJiraKeys) } : i \in 1..Len(images) }

\* handleJiraKeyClick without setShowDetectedKeys(false)
handleJiraKeyClickKeepsPanel(jiraKey) ==
    /\ mounted /\ variant = "session"
    /\ jiraKey \in ClickableKeys
    /\ SetIssueKey(jiraKey)
    /\ op' = "handleJiraKeyClick"
    /\ NoIntake
    /\ issued' = <<>>
    /\ UNCHANGED <<envVars, images, imageSessionId, uploading, detectedJiraKeys,
                   showDetectedKeys, uploadError, uploaderVars, ciVars, calls>>

\* handleJiraKeyClick(jiraKey)
handleJiraKeyClick(jiraKey) ==
    /\ mounted /\ variant = "session"
    /\ jiraKey \in ClickableKeys
    /\ SetIssueKey(jiraKey)
    /\ showDetectedKeys' = FALSE
    /\ op' = "handleJiraKeyClick"
    /\ NoIntake
    /\ issued' = <<>>
    /\ UNCHANGED <<envVars, images, imageSessionId, uploading, detectedJiraKeys,
                   uploadError, uploaderVars, ciVars, calls>>

\* the close button of the suggestion panel
HideDetectedKeys ==
    /\ mounted /\ variant = "session"
    /\ showDetectedKeys /\ Len(detectedJiraKeys) > 0
    /\ showDetectedKeys' = FALSE
    /\ op' = "hideDetectedKeys"
    /\ NoIntake
    /\ issued' = <<>>
    /\ UNCHANGED <<envVars, pageVars, images, imageSessionId, uploading,
                   detectedJiraKeys, uploadError, uploaderVars, ciVars, calls>>

\* disabled={analyzing || generating} of the text input
UInputDisabled == analyzing \/ generating

\* disabled={analyzing || !value.trim() || generating} of the Analyze button
UAnalyzeDisabled == analyzing \/ Trim(issueKey) = <<>> \/ generating

\* the Generate button disabled by the key and by generating alone
UGenerateDisabledWhileGenerating == issueKey = <<>> \/ generating

\* disabled={!value || generating || analyzing} of the Generate button
UGenerateDisabled == issueKey = <<>> \/ generating \/ analyzing

\* onChange={(e) => onChange(e.target.value)} of the text input
UTypeIssueKey(t) ==
    /\ mounted /\ variant = "session"
    /\ ~UInputDisabled
    /\ SetIssueKey(t)
    /\ op' = "typeIssueKey"
    /\ NoIntake
    /\ issued' = <<>>
    /\ UNCHANGED <<envVars, boxVars, uploaderVars, ciVars, calls>>

\* handleAnalyze, from the Analyze button
UAnalyzeClick ==
    /\ mounted /\ variant = "session"
    /\ ~UAnalyzeDisabled
    /\ analyze(imageSessionId)
    /\ op' = "analyze"
    /\ NoIntake
    /\ UNCHANGED <<envVars, boxVars, uploaderVars, ciVars>>

\* onKeyPress: e.key === 'Enter' && !analyzing && handleAnalyze()
UAnalyzeEnter ==
    /\ mounted /\ variant = "session"
    /\ ~UInputDisabled
    /\ ~analyzing
    /\ analyze(imageSessionId)
    /\ op' = "analyze"
    /\ NoIntake
    /\ UNCHANGED <<envVars, boxVars, uploaderVars, ciVars>>

\* handleGenerate, from the Generate button
UGenerateClick ==
    /\ mounted /\ variant = "session"
    /\ ~UGenerateDisabled
    /\ performGeneration(imageSessionId, <<>>)
    /\ op' = "generate"
    /\ NoIntake
    /\ UNCHANGED <<envVars, boxVars, uploaderVars, ciVars>>

\* the page is left by the Dashboard link of the layout (a push on the history
\* stack): GeneratePage and its input component unmount, the cleanup of the
\* session effect runs, and DashboardPage mounts
Unmount ==
    /\ mounted /\ pathname = "/"
    /\ mounted' = FALSE
    /\ pathname' = "/dashboard"
    /\ dashboard' = PrivateRoute(accessToken)
    /\ entries' = entries + 1
    /\ issued' = IF variant = "session" THEN SessionEffectCleanup(Null) ELSE <<>>
    /\ calls' = calls \cup ReleaseCalls(issued')
    /\ op' = "unmount"
    /\ NoIntake
    /\ UNCHANGED <<variant, accessToken, unauthorized, replaced, pageVars, boxVars,
                   uploaderVars, ciVars>>

----
(* CombinedInput (direct-upload GeneratePage) and ImageUpload *)

\* handleImagesChange adding the files it is handed to those it holds
handleImagesChangeAppends(files) ==
    /\ uploadedImages' = uploadedImages \o files
    /\ prelight' = IF prelight # Null THEN Null ELSE prelight
    /\ UNCHANGED <<issueKey, genResult, analyzing, generating>>

\* handleImagesChange of the direct-upload GeneratePage
handleImagesChange(files) ==
    /\ uploadedImages' = files
    /\ prelight' = IF prelight # Null THEN Null ELSE prelight
    /\ UNCHANGED <<issueKey, genResult, analyzing, generating>>

\* onImagesChange(files): ImageUpload has no parent in the repository;
\* uploadedImages then stands for the list its parent was handed last
onImagesChange(files) ==
    IF variant = "direct" THEN handleImagesChange(files)
    ELSE /\ uploadedImages' = files
         /\ UNCHANGED <<issueKey, prelight, genResult, analyzing, generating>>

\* disabled={analyzing || generating} of CombinedInput; ImageUpload: the default
IntakeDisabled == variant = "direct" /\ (analyzing \/ generating)

allowedTypes == { "image/jpeg", "image/jpg", "image/png", "image/gif", "image/webp" }

\* validateFile(file): the message, Null for a valid file
validateFile(file) ==
    IF file.type \notin allowedTypes
    THEN Some("Invalid file type. Only image/jpeg, image/jpg, image/png, image/gif, image/webp are allowed.")
    ELSE IF file.size > maxSizeMB * 1024 * 1024
         THEN Some("File size must be less than 10MB.")
    ELSE Null

\* the errorMessage the forEach of processFiles leaves: the message of the
\* last file that fails validateFile, '' when none does
RECURSIVE LastValidationError(_)
LastValidationError(files) ==
    IF files = <<>> THEN ""
    ELSE IF validateFile(files[Len(files)]) # Null THEN validateFile(files[Len(files)])[1]
    ELSE LastValidationError(SubSeq(files, 1, Len(files) - 1))

\* images.some(img => img.file.name === file.name && img.file.size === file.size)
IsDuplicate(file) ==
    \E k \in 1..Len(ciImages) :
        ciImages[k].file.name = file.name /\ ciImages[k].file.size = file.size

\* the UploadedImage pushed for a file; its preview is the object URL created
\* for it, which the model counts (created) and does not name
UploadedImageOf(file) == [file |-> file, originalName |-> file.name, size |-> file.size]

\* newImages of processFiles: the valid files that are no duplicate of an
\* image of the list
RECURSIVE NewImages(_)
NewImages(files) ==
    IF files = <<>> THEN <<>>
    ELSE LET file == Head(files)
         IN  IF validateFile(file) = Null /\ ~IsDuplicate(file)
             THEN <<UploadedImageOf(file)>> \o NewImages(Tail(files))
             ELSE NewImages(Tail(files))

\* updatedImages.map(img => img.file)
FilesOf(imgs) == [k \in 1..Len(imgs) |-> imgs[k].file]

\* processFiles of CombinedInput without the check of the count
processFilesUncounted(files) ==
    /\ batch' = files
    /\ created' = Len(NewImages(files))
    /\ revoked' = 0
    /\ IF LastValidationError(files) # ""
       THEN /\ ciError' = LastValidationError(files)
            /\ notified' = FALSE
            /\ UNCHANGED <<ciImages, pageVars>>
       ELSE LET updatedImages == ciImages \o NewImages(files)
            IN  /\ ciImages' = updatedImages
                /\ ciError' = ""
                /\ notified' = TRUE
                /\ onImagesChange(FilesOf(updatedImages))

\* processFiles of CombinedInput (and, line for line, of ImageUpload)
processFilesCombined(files) ==
    /\ batch' = files
    /\ created' = IF Len(ciImages) + Len(files) > maxImages THEN 0
                  ELSE Len(NewImages(files))
    /\ revoked' = 0
    /\ IF Len(ciImages) + Len(files) > maxImages
       THEN /\ ciError' = "Maximum 5 images allowed."
            /\ notified' = FALSE
            /\ UNCHANGED <<ciImages, pageVars>>
       ELSE IF LastValidationError(files) # ""
       THEN /\ ciError' = LastValidationError(files)
            /\ notified' = FALSE
            /\ UNCHANGED <<ciImages, pageVars>>
       ELSE LET updatedImages == ciImages \o NewImages(files)
            IN  /\ ciImages' = updatedImages
                /\ ciError' = ""
                /\ notified' = TRUE
                /\ onImagesChange(FilesOf(updatedImages))

\* handleFileInput: the hidden file input
HandleFileInput(files) ==
    /\ mounted /\ variant \in { "direct", "imageUpload" }
    /\ ~IntakeDisabled
    /\ processFilesCombined(files)
    /\ op' = "processFiles"
    /\ issued' = <<>>
    /\ UNCHANGED <<envVars, boxVars, uploaderVars, calls>>

\* handleDrop: files dropped on the input
HandleDrop(files) ==
    /\ mounted /\ variant \in { "direct", "imageUpload" }
    /\ ~IntakeDisabled
    /\ processFilesCombined(files)
    /\ op' = "processFiles"
    /\ issued' = <<>>
    /\ UNCHANGED <<envVars, boxVars, uploaderVars, calls>>

\* removeImage(index), from the remove button of a preview
removeImage(index) ==
    LET updatedImages == RemoveAt(ciImages, index)
    IN  /\ mounted /\ variant \in { "direct", "imageUpload" }
        /\ ~IntakeDisabled
        /\ index \in 1..Len(ciImages)
        /\ ciImages' = updatedImages
        /\ ciError' = ""
        /\ onImagesChange(FilesOf(updatedImages))
        /\ op' = "removeImage"
        /\ batch' = <<>>
        /\ notified' = TRUE
        /\ created' = 0
        /\ revoked' = 1
        /\ issued' = <<>>
        /\ UNCHANGED <<envVars, boxVars, uploaderVars, calls>>

\* clearAllImages of ImageUpload, from its Clear button
clearAllImages ==
    /\ mounted /\ variant = "imageUpload"
    /\ Len(ciImages) > 0
    /\ ciImages' = <<>>
    /\ ciError' = ""
    /\ onImagesChange(<<>>)
    /\ op' = "clearAllImages"
    /\ batch' = <<>>
    /\ notified' = TRUE
    /\ created' = 0
    /\ revoked' = Len(ciImages)
    /\ issued' = <<>>
    /\ UNCHANGED <<envVars, boxVars, uploaderVars, calls>>

\* disabled={analyzing || !issueKey.trim()} of the Analyze button
DAnalyzeDisabled == analyzing \/ Trim(issueKey) = <<>>

\* disabled={!issueKey || generating} of the Generate button
DGenerateDisabled == issueKey = <<>> \/ generating

\* onChange={(e) => onChange(e.target.value)} of CombinedInput's text input
DTypeIssueKey(t) ==
    /\ mounted /\ variant = "direct"
    /\ ~IntakeDisabled
    /\ SetIssueKey(t)
    /\ op' = "typeIssueKey"
    /\ NoIntake
    /\ issued' = <<>>
    /\ UNCHANGED <<envVars, boxVars, uploaderVars, ciVars, calls>>

\* onClick={analyze} of the Analyze button
DAnalyzeClick ==
    /\ mounted /\ variant = "direct"
    /\ ~DAnalyzeDisabled
    /\ analyze(Null)
    /\ op' = "analyze"
    /\ NoIntake
    /\ UNCHANGED <<envVars, boxVars, uploaderVars, ciVars>>

\* onKeyPress={(e) => e.key === 'Enter' && analyze()} of the text input
DAnalyzeEnter ==
    /\ mounted /\ variant = "direct"
    /\ ~IntakeDisabled
    /\ analyze(Null)
    /\ op' = "analyze"
    /\ NoIntake
    /\ UNCHANGED <<envVars, boxVars, uploaderVars, ciVars>>

\* onClick={performGeneration} of the Generate button
DGenerateClick ==
    /\ mounted /\ variant = "direct"
    /\ ~DGenerateDisabled
    /\ performGeneration(Null, uploadedImages)
    /\ op' = "generate"
    /\ NoIntake
    /\ UNCHANGED <<envVars, boxVars, uploaderVars, ciVars>>

----
(* The responses of the analysis and generation calls *)

\* the prelight call resolves
PrelightResolved(c) ==
    /\ c \in calls /\ c.req.api = "prelight"
    /\ calls' = calls \ { c }
    /\ IF mounted THEN AnalyzeResolved(c) ELSE UNCHANGED pageVars
    /\ op' = "analyzeResolved"
    /\ NoIntake
    /\ issued' = <<>>
    /\ UNCHANGED <<envVars, boxVars, uploaderVars, ciVars>>

\* the prelight call rejects
PrelightRejected(c, err) ==
    /\ c \in calls /\ c.req.api = "prelight"
    /\ calls' = calls \ { c }
    /\ IF mounted THEN AnalyzeRejected(err) ELSE UNCHANGED pageVars
    /\ op' = "analyzeRejected"
    /\ NoIntake
    /\ issued' = <<>>
    /\ UNCHANGED <<envVars, boxVars, uploaderVars, ciVars>>

\* the testcases call resolves
TestcasesResolved(c) ==
    /\ c \in calls /\ c.req.api = "testcases"
    /\ calls' = calls \ { c }
    /\ IF mounted THEN GenerationResolved(c) ELSE UNCHANGED pageVars
    /\ op' = "generateResolved"
    /\ NoIntake
    /\ issued' = <<>>
    /\ UNCHANGED <<envVars, boxVars, uploaderVars, ciVars>>

\* the testcases call rejects
TestcasesRejected(c, err) ==
    /\ c \in calls /\ c.req.api = "testcases"
    /\ calls' = calls \ { c }
    /\ IF mounted THEN GenerationRejected(err) ELSE UNCHANGED pageVars
    /\ op' = "generateRejected"
    /\ NoIntake
    /\ issued' = <<>>
    /\ UNCHANGED <<envVars, boxVars, uploaderVars, ciVars>>

----
(* The api client, the auth store and the routes *)

\* a release call resolves: nothing awaits it
ReleaseResolved(c) ==
    /\ c \in calls /\ c.req.api = "delete"
    /\ calls' = calls \ { c }
    /\ op' = "releaseResolved"
    /\ NoIntake
    /\ issued' = <<>>
    /\ UNCHANGED <<envVars, pageVars, boxVars, uploaderVars, ciVars>>

\* a release call rejects with another status than 401: .catch(console.error)
ReleaseRejected(c) ==
    /\ c \in calls /\ c.req.api = "delete"
    /\ calls' = calls \ { c }
    /\ op' = "releaseRejected"
    /\ NoIntake
    /\ issued' = <<>>
    /\ UNCHANGED <<envVars, pageVars, boxVars, uploaderVars, ciVars>>

\* the paths of the routes wrapped in PrivateRoute
PrivatePaths == { "/", "/dashboard" }

\* the response interceptor on a 401: authStore.logout(), then
\* window.location.replace('/login') unless the path is /login or /register;
\* the path changes only when the navigation commits
InterceptUnauthorized ==
    /\ accessToken' = Null
    /\ unauthorized' = unauthorized + 1
    /\ replaced' = IF pathname \notin { "/login", "/register" }
                   THEN replaced + 1 ELSE replaced
    /\ UNCHANGED <<pathname, dashboard, entries>>

\* a call is answered with status 401: the interceptor, then (the error being
\* rejected on) the catch and finally of the caller
Unauthorized(c, err) ==
    /\ c \in calls
    /\ unauthorized < MaxUnauthorized
    /\ calls' = calls \ { c }
    /\ InterceptUnauthorized
    /\ IF ~mounted \/ c.req.api = "delete"
       THEN UNCHANGED <<pageVars, boxVars>>
       ELSE IF c.req.api = "prelight"
       THEN AnalyzeRejected(err) /\ UNCHANGED boxVars
       ELSE IF c.req.api = "testcases"
       THEN GenerationRejected(err) /\ UNCHANGED boxVars
       ELSE /\ uploadError' = Some(UploadErrorMessage(err))
            /\ uploading' = FALSE
            /\ UNCHANGED <<pageVars, images, imageSessionId, detectedJiraKeys,
                           showDetectedKeys>>
    /\ op' = "unauthorized"
    /\ NoIntake
    /\ issued' = <<>>
    /\ UNCHANGED <<variant, mounted, uploaderVars, ciVars>>

\* onClick={logout} of the Logout button of the layout
Logout ==
    /\ accessToken # Null /\ pathname \in PrivatePaths
    /\ accessToken' = Null
    /\ op' = "logout"
    /\ NoIntake
    /\ issued' = <<>>
    /\ UNCHANGED <<variant, mounted, pathname, unauthorized, replaced, dashboard,
                   entries, pageVars, boxVars, uploaderVars, ciVars, calls>>

\* PrivateRoute renders with no token: <Navigate to="/login" replace />, which
\* pushes no history entry; the page under it unmounts, and the cleanup of
\* the session effect runs
PrivateRouteRedirect ==
    /\ ~PrivateRoute(accessToken) /\ pathname \in PrivatePaths
    /\ pathname' = "/login"
    /\ mounted' = FALSE
    /\ dashboard' = FALSE
    /\ issued' = IF mounted /\ variant = "session"
                 THEN SessionEffectCleanup(Null) ELSE <<>>
    /\ calls' = calls \cup ReleaseCalls(issued')
    /\ op' = "privateRoute"
    /\ NoIntake
    /\ UNCHANGED <<variant, accessToken, unauthorized, replaced, entries, pageVars,
                   boxVars, uploaderVars, ciVars>>

\* GeneratePage mounts under PrivateRoute with the token `token`: every
\* useState of the page and of the components in it starts from its initial
\* value.  The model follows a mount once the calls and the FileReader jobs
\* of an earlier instance are over.
MountGeneratePage(token) ==
    /\ calls = {} /\ readers = {}
    /\ mounted' = PrivateRoute(token)
    /\ issueKey' = <<>>
    /\ prelight' = Null
    /\ genResult' = Null
    /\ analyzing' = FALSE
    /\ generating' = FALSE
    /\ uploadedImages' = <<>>
    /\ images' = <<>>
    /\ imageSessionId' = Null
    /\ uploading' = FALSE
    /\ detectedJiraKeys' = <<>>
    /\ showDetectedKeys' = FALSE
    /\ uploadError' = Null
    /\ iuError' = Null
    /\ ciImages' = <<>>
    /\ ciError' = ""
    /\ UNCHANGED <<readers, nBatches, calls>>

\* LoginPage.onSubmit after its await, the login call resolved:
\* login(res.data.data) stores the token, navigate('/') pushes the route of
\* GeneratePage
Login ==
    /\ pathname = "/login"
    /\ accessToken' = Some("token")
    /\ pathname' = "/"
    /\ entries' = entries + 1
    /\ MountGeneratePage(accessToken')
    /\ op' = "login"
    /\ NoIntake
    /\ issued' = <<>>
    /\ UNCHANGED <<variant, unauthorized, replaced, dashboard>>

\* the Generate link of the layout, from the dashboard
LinkGenerate ==
    /\ dashboard /\ pathname = "/dashboard"
    /\ pathname' = "/"
    /\ entries' = entries + 1
    /\ dashboard' = FALSE
    /\ MountGeneratePage(accessToken)
    /\ op' = "linkGenerate"
    /\ NoIntake
    /\ issued' = <<>>
    /\ UNCHANGED <<variant, accessToken, unauthorized, replaced>>

----
(* The specifications *)

\* the user types, analyzes and generates
PageActions ==
    \/ \E t \in Texts : UTypeIssueKey(t)
    \/ \E t \in Texts : DTypeIssueKey(t)
    \/ UAnalyzeClick
    \/ UAnalyzeEnter
    \/ UGenerateClick
    \/ DAnalyzeClick
    \/ DAnalyzeEnter
    \/ DGenerateClick

\* the responses of the analysis and generation calls arrive
PageResponses ==
    \/ \E c \in calls : PrelightResolved(c)
    \/ \E c \in calls : \E err \in ServerErrors : PrelightRejected(c, err)
    \/ \E c \in calls : TestcasesResolved(c)
    \/ \E c \in calls : \E err \in ServerErrors : TestcasesRejected(c, err)

\* files are handed to ImageUploader
UploaderIntake(batches, pasted, cap) ==
    \/ \E files \in batches : HandleFileChange(files, cap)
    \/ \E items \in pasted : HandlePaste(items, cap)

\* files are handed to CombinedInput or ImageUpload
CombinedIntake(batches, dropped) ==
    \/ \E files \in batches : HandleFileInput(files)
    \/ \E files \in dropped : HandleDrop(files)

\* the rest of the input components, and the page being left
BoxActions ==
    \/ \E r \in readers : \E i \in 1..Len(r.pending) : ReaderLoaded(r, i)
    \/ \E c \in calls : \E data \in UploadResponses(c.req.images, c.job) :
           UploadResolved(c, data)
    \/ \E c \in calls : \E err \in ServerErrors : UploadRejected(c, err)
    \/ \E index \in 1..maxFiles : handleRemoveImage(index)
    \/ \E jiraKey \in { KeyA, KeyB } : handleJiraKeyClick(jiraKey)
    \/ HideDetectedKeys
    \/ \E index \in 1..maxImages : removeImage(index)
    \/ Unmount

Init == InitOf({ "session", "direct" })

Next ==
    \/ PageActions
    \/ PageResponses
    \/ UploaderIntake(FewBatches, FewBatches, MaxUploads)
    \/ CombinedIntake(FewBatches, FewBatches)
    \/ BoxActions

Spec == Init /\ [][Next]_vars

\* every call gets its response: the HTTP client resolves or rejects it
Fairness ==
    /\ WF_vars(\E c \in calls : PrelightResolved(c)
                   \/ \E err \in ServerErrors : PrelightRejected(c, err))
    /\ WF_vars(\E c \in calls : TestcasesResolved(c)
                   \/ \E err \in ServerErrors : TestcasesRejected(c, err))

\* the page with its calls settling: the user types, analyzes, generates,
\* uploads one image and picks the keys detected in it, or leaves
InitFair == InitOf({ "session", "direct" })

NextFair ==
    \/ PageActions
    \/ PageResponses
    \/ HandleFileChange(<<FileA>>, MaxUploads)
    \/ \E r \in readers : \E i \in 1..Len(r.pending) : ReaderLoaded(r, i)
    \/ \E c \in calls : \E data \in UploadResponses(c.req.images, c.job) :
           UploadResolved(c, data)
    \/ \E jiraKey \in { KeyA, KeyB } : handleJiraKeyClick(jiraKey)
    \/ Unmount

FairSpec == InitFair /\ [][NextFair]_vars /\ Fairness

InitIntake == InitOf({ "session", "direct", "imageUpload" })

NextIntake ==
    \/ UploaderIntake(Batches, FewBatches, MaxUploads)
    \/ CombinedIntake(Batches, FewBatches)
    \/ BoxActions
    \/ clearAllImages

SpecIntake == InitIntake /\ [][NextIntake]_vars

InitSession == InitOf({ "session" })

NextSession ==
    \/ UploaderIntake(FewBatches, FewBatches, MaxSessions)
    \/ \E r \in readers : \E i \in 1..Len(r.pending) : ReaderLoaded(r, i)
    \/ \E c \in calls : \E data \in UploadResponses(c.req.images, c.job) :
           UploadResolved(c, data)
    \/ \E c \in calls : \E err \in ServerErrors : UploadRejected(c, err)
    \/ \E index \in 1..maxFiles : handleRemoveImage(index)
    \/ \E jiraKey \in { KeyA, KeyB } : handleJiraKeyClick(jiraKey)
    \/ HideDetectedKeys
    \/ Unmount

SpecSession == InitSession /\ [][NextSession]_vars

\* the routes have rendered with the token of the store: no redirect of
\* PrivateRoute is pending
RoutesRendered == accessToken # Null \/ pathname \notin PrivatePaths

\* the session-reference page and the api client: one key, one image, every
\* call answered, with status 401 or another.  The redirect of PrivateRoute
\* runs before the next event of the user, not before the next response.
InitAuth == InitOf({ "session" })

NextAuth ==
    \/ RoutesRendered /\ UTypeIssueKey(KeyA)
    \/ RoutesRendered /\ UAnalyzeClick
    \/ RoutesRendered /\ UGenerateClick
    \/ RoutesRendered /\ HandleFileChange(<<FileA>>, MaxUploads)
    \/ \E r \in readers : \E i \in 1..Len(r.pending) : ReaderLoaded(r, i)
    \/ \E c \in calls : \E data \in UploadResponses(c.req.images, c.job) :
           UploadResolved(c, data)
    \/ RoutesRendered /\ \E index \in 1..maxFiles : handleRemoveImage(index)
    \/ RoutesRendered /\ Unmount
    \/ \E c \in calls : PrelightResolved(c)
    \/ \E c \in calls : TestcasesResolved(c)
    \/ \E c \in calls : ReleaseResolved(c)
    \/ \E c \in calls : ReleaseRejected(c)
    \/ \E c \in calls : \E err \in ServerErrors : Unauthorized(c, err)
    \/ Logout
    \/ PrivateRouteRedirect

SpecAuth == InitAuth /\ [][NextAuth]_vars

\* the selections of SpecPreview: two images, three images (one file twice)
\* with a text file among them, an oversized image, no image
PreviewBatches ==
    { <<FileB, FileA>>, <<FileA, FileTxt, FileB, FileA>>, <<FileA, FileBig>>,
      <<FileTxt>> }

\* the previews of ImageUploader: batches are selected, their files are read
\* in any order, the uploads are answered (with a failure, which leaves the
\* component as it was), the page may be left
InitPreview == InitOf({ "session" })

NextPreview ==
    \/ \E files \in PreviewBatches : HandleFileChange(files, MaxSessions)
    \/ \E r \in readers : \E i \in 1..Len(r.pending) : ReaderLoaded(r, i)
    \/ \E c \in calls : UploadRejected(c, Null)
    \/ Unmount

\* a FileReader that was started finishes reading
SpecPreview ==
    /\ InitPreview
    /\ [][NextPreview]_vars
    /\ WF_vars(\E r \in readers : \E i \in 1..Len(r.pending) : ReaderLoaded(r, i))

\* the application is opened at a private path, without a stored token or
\* with one: PrivateRoute decides what the first render mounts
InitRoutes ==
    /\ variant = "session"
    /\ accessToken \in { Null, Some("token") }
    /\ pathname \in PrivatePaths
    /\ mounted = (pathname = "/" /\ PrivateRoute(accessToken))
    /\ dashboard = (pathname = "/dashboard" /\ PrivateRoute(accessToken))
    /\ unauthorized = 0
    /\ replaced = 0
    /\ entries = 0
    /\ issueKey = <<>>
    /\ prelight = Null
    /\ genResult = Null
    /\ analyzing = FALSE
    /\ generating = FALSE
    /\ uploadedImages = <<>>
    /\ images = <<>>
    /\ imageSessionId = Null
    /\ uploading = FALSE
    /\ detectedJiraKeys = <<>>
    /\ showDetectedKeys = FALSE
    /\ uploadError = Null
    /\ iuError = Null
    /\ readers = {}
    /\ nBatches = 0
    /\ ciImages = <<>>
    /\ ciError = ""
    /\ calls = {}
    /\ op = "init"
    /\ batch = <<>>
    /\ notified = FALSE
    /\ issued = <<>>
    /\ created = 0
    /\ revoked = 0

\* the routes: login, the links of the layout, logout, a 401, and on the
\* page one key and its analysis.  A navigation that pushes a history entry
\* is followed up to MaxEntries entries.
NextRoutes ==
    \/ entries < MaxEntries /\ Login
    \/ entries < MaxEntries /\ RoutesRendered /\ LinkGenerate
    \/ entries < MaxEntries /\ RoutesRendered /\ Unmount
    \/ RoutesRendered /\ \E t \in { KeyA, KeyB } : UTypeIssueKey(t)
    \/ RoutesRendered /\ UAnalyzeClick
    \/ \E c \in calls : PrelightResolved(c)
    \/ \E c \in calls : Unauthorized(c, Null)
    \/ Logout
    \/ PrivateRouteRedirect

\* the render of PrivateRoute that follows a change of the token is not
\* postponed for ever
SpecRoutes == InitRoutes /\ [][NextRoutes]_vars /\ WF_vars(PrivateRouteRedirect)

----
(* Properties *)

\* C1: in UnifiedInputBox an upload session exists exactly when at least one
\* image is attached: imageSessionId is non-null iff images is non-empty, in
\* every state that uploads (started, resolved, rejected), removals, key
\* clicks and the unmount can reach.
SessionIffImages == (imageSessionId # Null) <=> (images # <<>>)

\* a second upload has replaced the session, and a removal left one image
SessionIffImagesWitness ==
    /\ op = "handleRemoveImage"
    /\ imageSessionId = Some(2)
    /\ Len(images) = 1

\* C2: removing the only image of an active session clears images, the
\* session id, the detected keys and the suggestion panel, and the release
\* calls the removal issues (there is at least one) are all DELETE
\* image-sessions of that session id.
RemovingLastImageReleases ==
    [][(op' = "handleRemoveImage" /\ Len(images) = 1 /\ imageSessionId # Null)
        => /\ images' = <<>>
           /\ imageSessionId' = Null
           /\ detectedJiraKeys' = <<>>
           /\ showDetectedKeys' = FALSE
           /\ Len(issued') >= 1
           /\ \A k \in 1..Len(issued') : issued'[k] = DeleteRequest(imageSessionId[1])]_vars

\* the last image of a session was removed and a release call went out
RemovingLastImageWitness ==
    /\ op = "handleRemoveImage"
    /\ images = <<>>
    /\ imageSessionId = Null
    /\ Len(issued) >= 1
    /\ issued[1].api = "delete"

\* the request an analyze (api prelight) or a generate (api testcases) is to
\* send in the current state
RequestOf(api) ==
    IF variant = "session"
    THEN Request(api, Trim(issueKey), imageSessionId, <<>>)
    ELSE Request(api, Trim(issueKey), Null,
                 IF api = "testcases" THEN uploadedImages ELSE <<>>)

\* C3: an analyze or generate started with a key that is non-empty after
\* trimming issues exactly one request, carrying the trimmed key.  The
\* session-reference page adds imageSessionId exactly when UnifiedInputBox
\* holds a session; the direct-upload page sends the key alone to prelight
\* and the key with the attached files to testcases.  With no image attached
\* the request carries nothing but the key.
OneRequestWithTrimmedKey ==
    [][(Trim(issueKey) # <<>>)
        => /\ op' = "analyze" => issued' = <<RequestOf("prelight")>>
           /\ op' = "generate" => issued' = <<RequestOf("testcases")>>
           /\ (op' \in { "analyze", "generate" } /\ images = <<>>
                   /\ uploadedImages = <<>>)
                  => /\ Len(issued') = 1
                     /\ issued'[1].imageSessionId = Null
                     /\ issued'[1].images = <<>>]_vars

\* an analysis of a key typed with a leading space, a session being active
OneRequestWitness ==
    /\ op = "analyze"
    /\ issueKey = <<Space, "A">>
    /\ Len(issued) = 1
    /\ issued[1].issueKey = KeyA
    /\ issued[1].imageSessionId # Null

\* C4: an analysis that has started ends with analyzing false, and a
\* generation with generating false, whether the call resolves or rejects,
\* as long as the page stays mounted (an unmounted page has no state left to
\* clear).
FlagsEventuallyCleared ==
    /\ (mounted /\ analyzing) ~> (~analyzing \/ ~mounted)
    /\ (mounted /\ generating) ~> (~generating \/ ~mounted)

\* an analysis has ended on a mounted page whose key changed in between
FlagsClearedWitness ==
    /\ op = "analyzeResolved"
    /\ mounted
    /\ ~analyzing
    /\ prelight # Null
    /\ prelight[1].issueKey # Trim(issueKey)

\* C5: a rejected analysis leaves in prelight an error payload holding the
\* server's error text when there is one (a non-empty text) and
\* 'Analysis failed' otherwise, with analyzing false; a rejected generation
\* leaves in genResult the server's text or 'Generation failed', with
\* generating false.
FailureShowsError ==
    [][\A c \in calls : \A err \in ServerErrors :
          /\ (mounted /\ PrelightRejected(c, err))
                 => /\ prelight' = Some(ErrorResult(IF Truthy(err) THEN err[1]
                                                    ELSE "Analysis failed"))
                    /\ analyzing' = FALSE
          /\ (mounted /\ TestcasesRejected(c, err))
                 => /\ genResult' = Some(ErrorResult(IF Truthy(err) THEN err[1]
                                                     ELSE "Generation failed"))
                    /\ generating' = FALSE]_vars

\* a rejected analysis shows the server's text
FailureShowsErrorWitness ==
    /\ op = "analyzeRejected"
    /\ mounted
    /\ ~analyzing
    /\ prelight = Some(ErrorResult("Issue not found"))

\* C6: the Analyze button is enabled exactly when the trimmed issue key is
\* non-empty and no analysis is in flight, and the Generate button exactly
\* when the trimmed issue key is non-empty and no generation is in flight,
\* for every text (whitespace-only included) and every combination of the
\* two flags.
ButtonsFollowTrimmedKey ==
    /\ variant = "session"
           => /\ ~UAnalyzeDisabled <=> (Trim(issueKey) # <<>> /\ ~analyzing)
              /\ ~UGenerateDisabled <=> (Trim(issueKey) # <<>> /\ ~generating)
    /\ variant = "direct"
           => /\ ~DAnalyzeDisabled <=> (Trim(issueKey) # <<>> /\ ~analyzing)
              /\ ~DGenerateDisabled <=> (Trim(issueKey) # <<>> /\ ~generating)

\* C7: every change of the issue-key text, typed or picked from the detected
\* keys, leaves prelight null and genResult as it was.
KeyChangeClearsPrelight ==
    [][issueKey' # issueKey
        => /\ prelight' = Null
           /\ genResult' = genResult]_vars

\* a detected key was picked while a generation result for another key and
\* no analysis result are shown
KeyChangeWitness ==
    /\ op = "handleJiraKeyClick"
    /\ prelight = Null
    /\ genResult # Null
    /\ genResult[1].issueKey # Trim(issueKey)

\* C8: while an analysis is in flight prelight is null, and while a
\* generation is in flight genResult is null.
InFlightSlotsEmpty ==
    /\ analyzing => prelight = Null
    /\ generating => genResult = Null

\* a generation has just started while the result of an analysis is shown
InFlightSlotsWitness ==
    /\ op = "generate"
    /\ generating
    /\ genResult = Null
    /\ prelight # Null

\* a step of processFiles on a batch past the maximum rejects it, and no list
\* is longer than the maximum
OverflowRejected ==
    op' = "processFiles"
        => /\ (variant \in { "direct", "imageUpload" }
                   /\ Len(ciImages) + Len(batch') > maxImages)
                  => /\ ciImages' = ciImages
                     /\ uploadedImages' = uploadedImages
                     /\ notified' = FALSE
                     /\ ciError' = "Maximum 5 images allowed."
           /\ (variant = "session"
                   /\ Len(SelectSeq(batch', IsImageFile)) > maxFiles)
                  => /\ readers' = readers
                     /\ images' = images
                     /\ notified' = FALSE
                     /\ iuError' = Some("Maximum 5 images allowed")

CountWithinMaximum ==
    /\ Len(ciImages) <= maxImages
    /\ Len(uploadedImages) <= maxImages
    /\ Len(images) <= maxFiles
    /\ \A r \in readers : Len(r.pending) + Len(r.loaded) <= maxFiles

\* C9: a batch handed to processFiles that would take the images past the
\* maximum (5) is rejected whole: CombinedInput and ImageUpload keep their
\* list, do not call onImagesChange and show 'Maximum 5 images allowed.';
\* ImageUploader starts no reader, so never calls onImagesSelected, and shows
\* 'Maximum 5 images allowed'.  No list ever holds more than the maximum.
MaximumCountEnforced == [][OverflowRejected]_vars /\ []CountWithinMaximum

\* a list at the maximum has just turned a batch down
MaximumCountWitness ==
    /\ op = "processFiles"
    /\ Len(ciImages) = maxImages
    /\ batch # <<>>
    /\ ~notified
    /\ ciError = "Maximum 5 images allowed."

\* a batch holding a file larger than 10 MB is rejected whole by processFiles
\* (nothing accepted, no callback, an error shown), wherever the file is
OversizedOutcome(IsCounted(_)) ==
    (op' = "processFiles" /\ \E k \in 1..Len(batch') : IsCounted(batch'[k]))
        => /\ notified' = FALSE
           /\ ciImages' = ciImages
           /\ uploadedImages' = uploadedImages
           /\ readers' = readers
           /\ images' = images
           /\ variant = "session" => iuError' # Null
           /\ variant # "session" => ciError' # ""

\* an image file larger than the per-file maximum
IsOversizedImage(file) == IsImageFile(file) /\ file.size > maxSizeBytes

\* C10: a batch handed to processFiles that holds an image file (media type
\* image/*) larger than the per-file maximum (10 MB) is rejected whole:
\* the list is unchanged, no callback is invoked and an error is shown,
\* wherever the file is in the batch.
OversizedImageRejectsBatch == [][OversizedOutcome(IsOversizedImage)]_vars

\* ImageUploader has turned down a batch whose last file is the oversized one
OversizedImageWitness ==
    /\ op = "processFiles"
    /\ variant = "session"
    /\ Len(batch) = 2
    /\ batch[1] = FileA
    /\ batch[2] = FileBig
    /\ ~notified
    /\ iuError = Some("Some files exceed 10MB limit")

\* the same of every file larger than the maximum, an image or not
IsLargeFile(file) == file.size > maxSizeBytes

OversizedFileRejectsBatch == [][OversizedOutcome(IsLargeFile)]_vars

\* C11: no two images of the list of CombinedInput / ImageUpload have the
\* same file name and byte size, whether the two files came in different
\* batches or in one.
NoDuplicateImages ==
    \A j, k \in 1..Len(ciImages) :
        (ciImages[j].file.name = ciImages[k].file.name
             /\ ciImages[j].file.size = ciImages[k].file.size) => j = k

\* C12: handing CombinedInput / ImageUpload a batch of one file that is
\* already in the list changes nothing: the list, the error message, the
\* parent's files and the parent's analysis result stay as they were.
ResubmissionChangesNothing ==
    [][(op' = "processFiles" /\ variant \in { "direct", "imageUpload" }
            /\ Len(batch') = 1 /\ IsDuplicate(batch'[1]))
        => /\ ciImages' = ciImages
           /\ ciError' = ciError
           /\ uploadedImages' = uploadedImages
           /\ prelight' = prelight]_vars

\* the image files of a batch pass on their own: none is over the size limit
\* and, with the `held` images already there, they stay within `most`
ImagesAlonePass(files, held, most) ==
    LET imgs == SelectSeq(files, IsImageFile)
    IN  /\ held + Len(imgs) <= most
        /\ \A k \in 1..Len(imgs) : imgs[k].size <= maxSizeBytes

\* a batch whose image files pass on their own sets no error, in ImageUploader
\* and in CombinedInput / ImageUpload, a batch with no image file included
NonImagesNeverAnError ==
    [][op' = "processFiles"
        => /\ (variant = "session" /\ ImagesAlonePass(batch', 0, maxFiles))
                  => iuError' = Null
           /\ (variant # "session"
                   /\ ImagesAlonePass(batch', Len(ciImages), maxImages))
                  => ciError' = ""]_vars

\* what ImageUploader does with a batch, by the image files in it
UploaderDiscardsNonImages ==
    LET imgs == SelectSeq(batch', IsImageFile)
    IN  IF Len(imgs) = 0
        THEN /\ iuError' = Some("Please select image files only")
             /\ readers' = readers
             /\ notified' = FALSE
        ELSE /\ iuError' # Some("Please select image files only")
             /\ ImagesAlonePass(batch', 0, maxFiles)
                    => /\ iuError' = Null
                       /\ notified' = TRUE
                       /\ \E r \in readers' \ readers :
                              r.pending = imgs /\ r.loaded = <<>>

\* what CombinedInput / ImageUpload do with a batch that is within the count
\* and holds a file of a type outside allowedTypes
CombinedRejectsOtherTypes ==
    (/\ Len(ciImages) + Len(batch') <= maxImages
     /\ \E k \in 1..Len(batch') : batch'[k].type \notin allowedTypes)
        => /\ ciImages' = ciImages
           /\ uploadedImages' = uploadedImages
           /\ notified' = FALSE
           /\ ciError' # ""

\* C13: ImageUploader drops the non-image files of a batch that holds an
\* image file without an error and processes the image files as if the others
\* were absent; a batch with no image file handed to its processFiles is
\* turned down with 'Please select image files only', and a paste with no
\* image item is ignored without an error.  CombinedInput and ImageUpload turn
\* down the whole batch, with an error, when a file is of a type outside the
\* allow-list.
NonImagesByComponent ==
    [][/\ (op' = "processFiles" /\ variant = "session") => UploaderDiscardsNonImages
       /\ (op' = "processFiles" /\ variant # "session") => CombinedRejectsOtherTypes
       /\ op' = "handlePaste" => (iuError' = iuError /\ readers' = readers)]_vars

\* ImageUploader has accepted the image of a batch that began with a text file
NonImagesWitness ==
    /\ op = "processFiles"
    /\ variant = "session"
    /\ batch = <<FileTxt, FileA>>
    /\ iuError = Null
    /\ \E r \in readers : r.pending = <<FileA>>

\* the files of an upload-images request passed the validation: there is a
\* file, every file is an image within the size limit, and they are at most
\* maxFiles
IsValidatedUpload(req) ==
    /\ Len(req.images) \in 1..maxFiles
    /\ \A k \in 1..Len(req.images) :
           IsImageFile(req.images[k]) /\ req.images[k].size <= maxSizeBytes

UploadsWereValidated ==
    /\ \A c \in calls : c.req.api = "upload" => IsValidatedUpload(c.req)
    /\ \A k \in 1..Len(issued) : issued[k].api = "upload" => IsValidatedUpload(issued[k])

\* a batch that processFiles of ImageUploader turns down starts no reader and
\* no call
RejectedBatchStartsNothing ==
    (op' = "processFiles" /\ variant = "session" /\ iuError' # Null)
        => /\ readers' = readers
           /\ calls' = calls
           /\ issued' = <<>>
           /\ uploading' = uploading

\* C14: an upload-images request is only ever issued for a non-empty list of
\* image files, at most maxFiles of them and each within the size limit; a
\* batch that processFiles of ImageUploader rejects starts no reader, so no
\* onImagesSelected and no upload request come of it.
ValidationBeforeUpload == []UploadsWereValidated /\ [][RejectedBatchStartsNothing]_vars

\* the last preview read of a batch has sent its two files, one of them of
\* exactly the maximum size
ValidationBeforeUploadWitness ==
    /\ op = "readerLoaded"
    /\ Len(issued) = 1
    /\ issued[1].api = "upload"
    /\ issued[1].images = <<FileB, FileA>>

\* C15: in a mounted UnifiedInputBox, uploading is true exactly when an
\* upload-images call is outstanding.
UploadingIffOutstanding ==
    (mounted /\ variant = "session")
        => (uploading <=> \E c \in calls : c.req.api = "upload")

\* the n-th image after an upload of `files` answered by `data`: the preview
\* and size of the n-th file sent, the fields of the n-th server result, and
\* the local name, no keys and 0 where the result or the field is missing
MergedByPosition(files, data) ==
    /\ Len(images') = Len(files)
    /\ \A n \in 1..Len(files) :
           LET has == n <= Len(data.images)
           IN  /\ images'[n].preview = files[n]
               /\ images'[n].size = files[n].size
               /\ images'[n].filename =
                      IF has /\ Truthy(data.images[n].filename)
                      THEN data.images[n].filename[1] ELSE files[n].name
               /\ images'[n].detectedJiraKeys =
                      IF has /\ data.images[n].detectedJiraKeys # Null
                      THEN data.images[n].detectedJiraKeys[1] ELSE <<>>
               /\ images'[n].ocrConfidence =
                      IF has /\ data.images[n].ocrConfidence # Null
                      THEN data.images[n].ocrConfidence[1] ELSE 0

\* C16: after a successful upload the n-th attached image has the preview and
\* size of the n-th file of the upload payload and the filename, detected keys
\* and OCR confidence of the n-th server result, with the local filename, an
\* empty key list and 0 as fallbacks, whatever order the previews were read in.
OcrMergedByPosition ==
    [][\A c \in calls : \A data \in UploadResponses(c.req.images, c.job) :
          (mounted /\ UploadResolved(c, data)) => MergedByPosition(c.req.images, data)]_vars

\* an upload of two files read in the reverse of the order they were selected
\* in has resolved
OcrMergedWitness ==
    /\ op = "uploadResolved"
    /\ mounted
    /\ Len(images) = 2
    /\ images[1].preview = FileA
    /\ images[1].filename = "upload-a.png"
    /\ images[1].detectedJiraKeys = <<KeyA>>
    /\ images[2].preview = FileB
    /\ images[2].filename = "b.jpg"
    /\ images[2].detectedJiraKeys = <<>>

\* C17: a failed upload-images call sets uploadError to the server's message
\* when there is one and to 'Failed to upload images' otherwise, clears
\* uploading, and leaves the attached images, the session id and the detected
\* keys as they were; the start of the next upload clears uploadError.
UploadFailureKeepsState ==
    [][/\ \A c \in calls : \A err \in ServerErrors :
              (mounted /\ UploadRejected(c, err))
                  => /\ uploadError' = Some(IF Truthy(err) THEN err[1]
                                            ELSE "Failed to upload images")
                     /\ uploading' = FALSE
                     /\ images' = images
                     /\ imageSessionId' = imageSessionId
                     /\ detectedJiraKeys' = detectedJiraKeys
       /\ (mounted /\ op' = "readerLoaded" /\ issued' # <<>>)
              => (uploadError' = Null /\ uploading' = TRUE)]_vars

\* a second upload has failed with the server's message while the images and
\* the session of the first are still there
UploadFailureWitness ==
    /\ op = "uploadRejected"
    /\ mounted
    /\ uploadError = Some("Issue not found")
    /\ ~uploading
    /\ images # <<>>
    /\ imageSessionId = Some(1)

\* a release call has failed in this step, with status 401 or another
ReleaseFailed ==
    /\ op' \in { "releaseRejected", "unauthorized" }
    /\ \E c \in calls \ calls' : c.req.api = "delete"

\* the state of the components and what the page shows of the session
UiUnchanged ==
    /\ UNCHANGED <<mounted, pageVars, boxVars, uploaderVars, ciVars>>
    /\ UNCHANGED <<accessToken, pathname, replaced>>

TeardownReleases ==
    (op' \in { "unmount", "privateRoute" } /\ mounted /\ imageSessionId # Null)
        => /\ mounted' = FALSE
           /\ issued' = <<DeleteRequest(imageSessionId[1])>>
           /\ ReleaseCalls(issued') \subseteq calls'

\* a failed release call is dropped: no state of the components changes, no
\* error is shown, no request is issued; short of a 401 nothing changes at all
ReleaseFailureDropped ==
    ReleaseFailed
        => /\ UNCHANGED <<mounted, pageVars, boxVars, uploaderVars, ciVars>>
           /\ issued' = <<>>
           /\ calls' \subseteq calls
           /\ op' = "releaseRejected" => UiUnchanged
           /\ op' = "unauthorized" => accessToken' = Null

PreviewHandlesBalanced ==
    [][created' - revoked' = Len(ciImages') - Len(ciImages)]_vars

\* the suggestion panel is rendered (showDetectedKeys && detectedJiraKeys.length > 0)
PanelShown == showDetectedKeys /\ Len(detectedJiraKeys) > 0

\* a successful upload of a mounted component: some response the server can
\* give to the resolved call explains the new image cards and key list, and
\* the panel is shown when that response carried keys
UploadShowsDetectedKeys ==
    (op' = "uploadResolved" /\ mounted)
        => \E c \in calls \ calls' :
             /\ c.req.api = "upload"
             /\ \E data \in UploadResponses(c.req.images, c.job) :
                  /\ images' = [i \in 1..Len(c.req.images) |->
                                   ImagePreviewOf(c.req.images[i], data, i)]
                  /\ imageSessionId' = Some(data.sessionId)
                  /\ detectedJiraKeys' = OrEmpty(data.detectedJiraKeys)
                  /\ Len(OrEmpty(data.detectedJiraKeys)) > 0 => PanelShown'

\* a click on a detected key: the text becomes one of the keys on display, the
\* panel is hidden, images and session stay
KeyClickSetsIssueKey ==
    op' = "handleJiraKeyClick"
        => /\ \E jiraKey \in ClickableKeys : issueKey' = jiraKey
           /\ ~PanelShown'
           /\ ~showDetectedKeys'
           /\ images' = images
           /\ imageSessionId' = imageSessionId
           /\ detectedJiraKeys' = detectedJiraKeys

\* C21: a successful upload that reports detected keys shows the suggestion
\* panel with them, and selecting a detected key (panel or image card) sets
\* the issue-key text to that key and hides the panel, images and session id
\* unchanged
DetectedKeySelection ==
    [][UploadShowsDetectedKeys /\ KeyClickSetsIssueKey]_vars

\* a key was picked after an upload that had shown the panel
DetectedKeySelectionWitness ==
    /\ op = "handleJiraKeyClick"
    /\ issueKey = KeyA
    /\ ~showDetectedKeys
    /\ detectedJiraKeys = <<KeyA>>
    /\ imageSessionId # Null
    /\ Len(images) > 0

\* GeneratePage or DashboardPage is on display
PageMounted == mounted \/ dashboard

\* a page is on display without a token only until PrivateRoute renders
\* again: the path is still the private one
GatedWhileTokenless ==
    (PageMounted /\ accessToken = Null) => pathname \in PrivatePaths

\* a page is mounted by a render that sees a token
MountedWithToken ==
    ((mounted' /\ ~mounted) \/ (dashboard' /\ ~dashboard)) => accessToken' # Null

\* the render of PrivateRoute without a token leaves no page mounted, goes
\* to /login, and pushes no history entry
RedirectReplaces ==
    (accessToken = Null /\ pathname \in PrivatePaths /\ pathname' # pathname)
        => /\ pathname' = "/login"
           /\ ~PageMounted'
           /\ entries' = entries

\* without a token the private path is left for /login
TokenlessLeadsToLogin ==
    (accessToken = Null /\ pathname \in PrivatePaths)
        ~> (pathname = "/login" /\ ~PageMounted)

KeyChangeCancelsNothing ==
    issueKey' # issueKey => calls \subseteq calls'

\* the response of an analyze call fills the slot with the data for the key
\* of the request, whatever the text is by then
LateResponseFillsSlot ==
    (op' = "analyzeResolved" /\ mounted)
        => \E c \in calls \ calls' :
             /\ c.req.api = "prelight"
             /\ prelight' = Some(DataResult(c.req.issueKey, c.nImages))

\* C23: a change of the issue-key text while an analyze call is outstanding
\* cancels nothing, and the late response, computed for the earlier key,
\* still fills the analysis result slot
StaleResponseApplied == [][KeyChangeCancelsNothing /\ LateResponseFillsSlot]_vars

\* in UnifiedInputBox a detected key was picked during the analysis of
\* another key, and the slot now shows the result for that other key
StaleResponseWitness ==
    /\ variant = "session"
    /\ op = "analyzeResolved"
    /\ prelight # Null
    /\ prelight[1].error = Null
    /\ prelight[1].issueKey = KeyB
    /\ issueKey = KeyA
    /\ ~analyzing

\* the number of positions of s that hold x
Count(s, x) == Cardinality({ i \in DOMAIN s : s[i] = x })

\* s and t hold the same elements, each as often
IsPermutation(s, t) ==
    /\ Len(s) = Len(t)
    /\ \A i \in DOMAIN s : Count(s, s[i]) = Count(t, s[i])

\* the FileReader job of batch j, if it is still reading
JobReading(j) == \E r \in readers : r.job = j

\* an accepted batch starts one job, for its image files, under a new number,
\* and calls nothing yet; a rejected batch starts nothing
BatchStartsOneJob ==
    op' = "processFiles"
        => /\ issued' = <<>>
           /\ calls' = calls
           /\ IF notified'
              THEN /\ ~JobReading(nBatches') /\ nBatches' = nBatches + 1
                   /\ \A c \in calls : c.job # nBatches'
                   /\ LET imgs == SelectSeq(batch', IsImageFile)
                      IN  readers' = readers \cup
                              { [job |-> nBatches', files |-> imgs, pending |-> imgs,
                                 loaded |-> <<>>] }
              ELSE readers' = readers /\ nBatches' = nBatches

\* a finished read calls onImagesSelected when it was the last of its job,
\* with the job's image files, and the job is over; an earlier read calls
\* nothing and the job goes on
LastReadNotifies ==
    op' = "readerLoaded"
        => \E r \in readers \ readers' :
             IF Len(r.pending) = 1
             THEN /\ ~JobReading(r.job)'
                  /\ Len(issued') = 1
                  /\ issued'[1].api = "upload"
                  /\ IsPermutation(issued'[1].images, r.files)
                  /\ \E c \in calls' \ calls : c.job = r.job /\ c.req = issued'[1]
             ELSE /\ issued' = <<>>
                  /\ calls' = calls
                  /\ \E n \in readers' \ readers :
                       /\ n.job = r.job /\ n.files = r.files
                       /\ Len(n.pending) = Len(r.pending) - 1
                       /\ IsPermutation(n.loaded \o n.pending, r.files)

\* onImagesSelected is called by a finished read and by nothing else
OnlyReadsNotify ==
    (\E k \in 1..Len(issued') : issued'[k].api = "upload") => op' = "readerLoaded"

\* the jobs that are reading and the uploads in flight carry different batch
\* numbers, none above the number of batches accepted
JobsDistinct ==
    /\ \A r1, r2 \in readers : r1.job = r2.job => r1 = r2
    /\ \A r \in readers :
         /\ r.job \in 1..nBatches
         /\ IsPermutation(r.loaded \o r.pending, r.files)
         /\ r.pending # <<>>
         /\ \A c \in calls : c.req.api = "upload" => c.job # r.job
    /\ \A c1, c2 \in calls :
         (c1.req.api = "upload" /\ c2.req.api = "upload" /\ c1.job = c2.job) => c1 = c2

\* C24: for every batch that ImageUploader.processFiles accepts,
\* onImagesSelected is called exactly once, after every file of the batch
\* was read, with exactly the image files of the batch, whatever the order
\* in which the reads finish; a rejected batch never calls it
OnImagesSelectedOnce ==
    /\ []JobsDistinct
    /\ [][BatchStartsOneJob /\ LastReadNotifies /\ OnlyReadsNotify]_vars
    /\ \A j \in 1..(MaxSessions + 1) : JobReading(j) ~> ~JobReading(j)

\* the three image files of a batch were read, the second of them first, and
\* handed over together
OnImagesSelectedWitness ==
    /\ op = "readerLoaded"
    /\ Len(issued) = 1
    /\ issued[1].images = <<FileB, FileA, FileA>>
    /\ \E c \in calls : c.req = issued[1] /\ c.job = 2
    /\ uploading

\* the release requests among reqs that are for the session of reqs[k]
ReleasesOfSame(reqs, k) ==
    { n \in 1..Len(reqs) :
        reqs[n].api = "delete" /\ reqs[n].imageSessionId = reqs[k].imageSessionId }

\* C25: at most one release call is issued for each session id: no handler
\* issues two release calls for one session, nor a release call for a
\* session whose release is still awaiting its response
OneReleasePerSession ==
    [][\A k \in 1..Len(issued') :
          issued'[k].api = "delete"
              => /\ ReleasesOfSame(issued', k) = { k }
                 /\ \A c \in calls : c.req # issued'[k]]_vars

\* the handler that ran issued a release call for session sid
Releases(sid) == \E k \in 1..Len(issued') : issued'[k] = DeleteRequest(sid)

\* the session that a successful upload returns is taken over by the mounted
\* component, or released
ReturnedSessionKept ==
    op' = "uploadResolved"
        => \E c \in calls \ calls' :
             /\ c.req.api = "upload"
             /\ \/ mounted' /\ imageSessionId' = Some(c.job)
                \/ Releases(c.job)

\* the session of the component is released when the component drops it or
\* is torn down
DroppedSessionReleased ==
    (mounted /\ imageSessionId # Null
        /\ (imageSessionId' # imageSessionId \/ ~mounted'))
        => Releases(imageSessionId[1])

\* C26: no server session is leaked: every session id that a successful
\* upload returns is held by the mounted component until a release call is
\* issued for it, also when a later upload supersedes it and when the upload
\* was still outstanding at teardown
NoSessionLeaked == [][ReturnedSessionKept /\ DroppedSessionReleased]_vars

\* the prelight and testcases calls awaiting their response
PageCalls == { c \in calls : c.req.api \in { "prelight", "testcases" } }

\* the handler that ran sent a prelight or a testcases request
StartsPageCall ==
    \E k \in 1..Len(issued') : issued'[k].api \in { "prelight", "testcases" }

\* with UnifiedInputBox at most one of the two calls is outstanding, and the
\* flags are not both set
OnePageCallAtMost ==
    variant = "session"
        => /\ Cardinality(PageCalls) <= 1
           /\ ~(analyzing /\ generating)
           /\ (mounted /\ PageCalls # {}) => (analyzing \/ generating)

\* with UnifiedInputBox a call is started only while both flags are false
\* and none is outstanding
StartedWhileIdle ==
    (variant = "session" /\ StartsPageCall)
        => /\ ~analyzing /\ ~generating
           /\ PageCalls = {}
           /\ Len(issued') = 1

\* C27: in the session-reference variant at most one prelight-or-testcases
\* request is outstanding at any time: analyzing and generating are never
\* both true, and no analyze or generate starts while either flag is true
OneRequestOutstanding == []OnePageCallAtMost /\ [][StartedWhileIdle]_vars

\* a generation was started after an analysis had finished
OneRequestOutstandingWitness ==
    /\ variant = "session"
    /\ op = "generate"
    /\ generating /\ ~analyzing
    /\ prelight # Null
    /\ Cardinality(PageCalls) = 1

\* the issue keys of the prelight and testcases calls awaiting their response
\* are trimmed and not empty
KeysOfCallsNotEmpty ==
    \A c \in PageCalls :
        c.req.issueKey # <<>> /\ c.req.issueKey = Trim(c.req.issueKey)

\* analyze or generate on a key that is empty after trimming: no request,
\* the flags and the slots as they were; every request that is sent has a
\* key that is not empty
EmptyKeyIsNoOp ==
    /\ (op' \in { "analyze", "generate" } /\ Trim(issueKey) = <<>>)
           => /\ issued' = <<>>
              /\ calls' = calls
              /\ UNCHANGED <<analyzing, generating, prelight, genResult>>
    /\ \A k \in 1..Len(issued') :
           issued'[k].api \in { "prelight", "testcases" }
               => issued'[k].issueKey # <<>>

\* C28: no prelight or testcases request is sent with an issue key that is
\* empty after trimming: analyze or generate on such a key, even from an
\* enabled button, sends nothing and changes neither the in-flight flags nor
\* the result slots
NoRequestWithEmptyKey == []KeysOfCallsNotEmpty /\ [][EmptyKeyIsNoOp]_vars

\* Generate was clicked on a key of one space, which leaves the button
\* enabled, and nothing was sent
NoRequestWithEmptyKeyWitness ==
    /\ op = "generate"
    /\ issueKey = <<Space>>
    /\ issued = <<>>
    /\ calls = {}
    /\ ~generating
    /\ genResult = Null

\* the page of the direct-upload variant holds the files of the images that
\* CombinedInput displays, in their order
PageMirrorsInput == variant = "direct" => uploadedImages = FilesOf(ciImages)

\* a rejected batch changes neither list; the generate request carries the
\* files of the images on display
MirroredStep ==
    variant = "direct"
        => /\ (op' = "processFiles" /\ ~notified')
                => (ciImages' = ciImages /\ uploadedImages' = uploadedImages)
           /\ \A k \in 1..Len(issued') :
                issued'[k].api = "testcases"
                    => issued'[k].images = FilesOf(ciImages)

\* C29: in the direct-upload variant the page's uploadedImages equals, in
\* order, the files of the images of CombinedInput after every accepted
\* batch, rejected batch and removal, so the multipart generate request
\* carries exactly the images on display; a rejected batch changes neither
\* list
UploadedImagesMirrored == []PageMirrorsInput /\ [][MirroredStep]_vars

\* a second batch was merged into the list without its duplicate, and the
\* generation was started with both files
UploadedImagesMirroredWitness ==
    /\ variant = "direct"
    /\ op = "generate"
    /\ Len(issued) = 1
    /\ issued[1].images = <<FileA, FileB>>
    /\ FilesOf(ciImages) = <<FileA, FileB>>

\* C30: in UnifiedInputBox the removal of an image that is not the last one
\* only drops that image, the others keeping their order: no network call,
\* and the session id, the aggregate detected keys, the visibility of the
\* suggestion panel, the uploading status and the upload error stay
NonLastRemovalFrame ==
    [][(op' = "handleRemoveImage" /\ Len(images) > 1)
          => /\ \E index \in 1..Len(images) : images' = RemoveAt(images, index)
             /\ issued' = <<>>
             /\ calls' = calls
             /\ UNCHANGED <<imageSessionId, detectedJiraKeys, showDetectedKeys,
                            uploading, uploadError, pageVars>>]_vars

\* of two images the one with the detected key was removed: the other, the
\* session and the key list are still there
NonLastRemovalWitness ==
    /\ op = "handleRemoveImage"
    /\ Len(images) = 1
    /\ images[1].preview = FileB
    /\ imageSessionId # Null
    /\ detectedJiraKeys = <<KeyA>>
    /\ issued = <<>>

====
